---- MODULE Spec2Model ----
(***************************************************************************)
(* Underwater image enhancement: process_image (src/main.py) and           *)
(* preprocess_underwater_image (src/underwater_preprocessing.py).          *)
(*                                                                         *)
(* A plane is [w, h, px] with px a function over 0..w*h-1 in row-major     *)
(* order (index y*w + x); a raster has the same shape with 3-tuples        *)
(* <<c0, c1, c2>> as pixels (BGR for device colour, LAB for perceptual).   *)
(* Tuples are 1-based: pixel[1], pixel[2], pixel[3] are the source's     *)
(* channels 0, 1, 2.                                                       *)
(* The chromatic shift (lines 56-62) is computed in binary64, operation by *)
(* operation, as NumPy computes it. Red compensation (lines 40-48) is kept *)
(* as an exact fraction num/den: for every R, G in 0..255 its binary64     *)
(* value converts to the same 8 bits.                                      *)
(***************************************************************************)
EXTENDS Integers, Sequences, FiniteSets, TLC

\* ------------------------------------------------------------------ bounds
MaxW == 3
MaxCalls == 3
MaxTile == 2

\* ------------------------------------------------- constants of the source
U8Max == 255
Neutral == 128
StrengthNum == 12
StrengthDen == 10
ClipLimitNum == 1
ClipLimitDen == 2
TileGrid == 8

U8 == 0..U8Max
HistSize == U8Max + 1

\* ----------------------------------------------------------------- helpers
Min(x, y) == IF x <= y THEN x ELSE y
Max(x, y) == IF x >= y THEN x ELSE y
Abs(x) == IF x >= 0 THEN x ELSE -x

\* np.clip(x, lo, hi)
Clip(x, lo, hi) == Max(lo, Min(x, hi))

RECURSIVE SumOver(_, _)
\* sum of f[i] for i in the finite set S
SumOver(f, S) ==
    IF S = {} THEN 0
    ELSE LET i == CHOOSE j \in S : TRUE IN f[i] + SumOver(f, S \ {i})

Idx(plane) == 0..(plane.w * plane.h - 1)

\* cv2.split: channel ch of a raster as a plane of its own
Channel(raster, ch) ==
    [w |-> raster.w, h |-> raster.h, px |-> [i \in Idx(raster) |-> raster.px[i][ch]]]

\* cv2.merge: three planes of one shape as a raster
Merge(p1, p2, p3) ==
    [w |-> p1.w, h |-> p1.h, px |-> [i \in Idx(p1) |-> <<p1.px[i], p2.px[i], p3.px[i]>>]]

\* the value every local holds before it is bound
Unset == [w |-> 0, h |-> 0, px |-> <<>>]

\* ------------------------------------------------ red channel compensation
\* (r_f + (g_f - r_f) * (1 - r_f) * g_f) * 255 with r_f = R/255, g_f = G/255,
\* as the fraction CompensatedNum / CompensatedDen. The source computes it in
\* doubles; for every R, G in 0..255 the double and the fraction convert to
\* the same 8-bit value.
CompensatedDen == U8Max * U8Max
CompensatedNumFlipped(R, G) == R * U8Max * U8Max - (G - R) * (U8Max - R) * G
CompensatedNumPlus(R, G) == R * U8Max * U8Max + (G - R) * (U8Max + R) * G
CompensatedNum(R, G) == R * U8Max * U8Max + (G - R) * (U8Max - R) * G

\* np.clip(compensated_r * 255, 0, 255).astype(np.uint8): clip, then drop the fraction
RedNew(R, G) ==
    Clip(CompensatedNum(R, G), 0, U8Max * CompensatedDen) \div CompensatedDen

\* --------------------------------------------------------- input rasters
\* the device colours (B, G, R) input rasters are made of
Gray == <<128, 128, 128>>
BlueCast == <<200, 50, 10>>
Green == <<0, 255, 0>>
Blue == <<255, 0, 0>>
DeepBlue == <<220, 64, 0>>
SeaGreen == <<50, 255, 120>>
DarkGreen == <<0, 20, 0>>
Palette == {Gray, BlueCast, Green, Blue, DeepBlue, SeaGreen, DarkGreen}

\* a one-row raster holding the pixels of the sequence s
Row(s) == [w |-> Len(s), h |-> 1, px |-> [i \in 0..(Len(s) - 1) |-> s[i + 1]]]

\* every one-row raster of width 1..MaxW over the palette
Images == UNION {{Row(s) : s \in [1..n -> Palette]} : n \in 1..MaxW}

\* ------------------------------------------------- colour space conversion
\* cv2.cvtColor(..., COLOR_BGR2LAB) on 8-bit pixels, tabulated on the colours
\* red compensation makes of the palette: (B, G, R') |-> (L, A, B)
LabTable ==
    (<<128, 128, 128>> :> <<137, 128, 128>>) @@
    (<<200, 50, 17>> :> <<79, 176, 49>>) @@
    (<<0, 255, 255>> :> <<248, 106, 223>>) @@
    (<<255, 0, 0>> :> <<82, 207, 20>>) @@
    (<<220, 64, 16>> :> <<92, 174, 46>>) @@
    (<<50, 255, 191>> :> <<237, 82, 210>>) @@
    (<<0, 20, 1>> :> <<11, 120, 134>>)

BGR2LAB(raster) == [raster EXCEPT !.px = [i \in Idx(raster) |-> LabTable[raster.px[i]]]]

\* cv2.cvtColor(..., COLOR_LAB2BGR): the library's inverse transform, kept as
\* its application to the perceptual raster it is given
LAB2BGR(raster) == [w |-> raster.w, h |-> raster.h, px |-> <<"LAB2BGR", raster.px>>]

\* ------------------------------------------------- binary64 (float64) values
\* NumPy evaluates lines 56-62 in IEEE-754 binary64: every operation returns
\* the exact result rounded to 53 significant bits, ties to even.
MantBits == 53

\* a natural number as its digits in base 2^LimbBits, least significant
\* first, without leading zero digits; 0 is <<>>
LimbBits == 14
LimbBase == 2 ^ LimbBits

RECURSIVE BigNorm(_)
BigNorm(a) ==
    IF a = <<>> \/ a[Len(a)] # 0 THEN a ELSE BigNorm(SubSeq(a, 1, Len(a) - 1))

RECURSIVE BigOf(_)
BigOf(n) == IF n = 0 THEN <<>> ELSE <<n % LimbBase>> \o BigOf(n \div LimbBase)

RECURSIVE BigToInt(_)
BigToInt(a) == IF a = <<>> THEN 0 ELSE a[1] + LimbBase * BigToInt(Tail(a))

Digit(a, i) == IF 1 <= i /\ i <= Len(a) THEN a[i] ELSE 0

RECURSIVE BigAddFrom(_, _, _, _)
BigAddFrom(a, b, i, carry) ==
    IF i > Len(a) /\ i > Len(b) THEN BigOf(carry)
    ELSE LET t == Digit(a, i) + Digit(b, i) + carry
         IN  <<t % LimbBase>> \o BigAddFrom(a, b, i + 1, t \div LimbBase)
BigAdd(a, b) == BigAddFrom(a, b, 1, 0)

RECURSIVE BigSubFrom(_, _, _, _)
BigSubFrom(a, b, i, borrow) ==
    IF i > Len(a) THEN <<>>
    ELSE LET t == Digit(a, i) - Digit(b, i) - borrow
         IN  <<t % LimbBase>> \o BigSubFrom(a, b, i + 1, IF t < 0 THEN 1 ELSE 0)
\* a - b for a >= b
BigSub(a, b) == BigNorm(BigSubFrom(a, b, 1, 0))

RECURSIVE BigCmpFrom(_, _, _)
BigCmpFrom(a, b, i) ==
    IF i = 0 THEN 0
    ELSE IF a[i] < b[i] THEN -1
    ELSE IF a[i] > b[i] THEN 1
    ELSE BigCmpFrom(a, b, i - 1)
\* -1, 0, 1 as a < b, a = b, a > b
BigCmp(a, b) ==
    IF Len(a) < Len(b) THEN -1
    ELSE IF Len(a) > Len(b) THEN 1
    ELSE BigCmpFrom(a, b, Len(a))

RECURSIVE BigMulFrom(_, _, _, _)
BigMulFrom(a, b, k, carry) ==
    IF k > Len(a) + Len(b) THEN <<>>
    ELSE LET t == SumOver([i \in 1..Len(a) |-> a[i] * Digit(b, k + 1 - i)], 1..Len(a))
                  + carry
         IN  <<t % LimbBase>> \o BigMulFrom(a, b, k + 1, t \div LimbBase)
BigMul(a, b) == BigNorm(BigMulFrom(a, b, 1, 0))

RECURSIVE BigDivFrom(_, _, _, _)
BigDivFrom(a, c, i, rem) ==
    IF i = 0 THEN [q |-> <<>>, r |-> rem]
    ELSE LET t == rem * LimbBase + a[i]
             rest == BigDivFrom(a, c, i - 1, t % c)
         IN  [q |-> Append(rest.q, t \div c), r |-> rest.r]
\* quotient and remainder of a by the small number c > 0
BigDivSmall(a, c) ==
    LET d == BigDivFrom(a, c, Len(a), 0) IN [q |-> BigNorm(d.q), r |-> d.r]

\* a * 2^k
BigShl(a, k) ==
    IF a = <<>> THEN <<>>
    ELSE [i \in 1..(k \div LimbBits) |-> 0] \o BigMul(a, BigOf(2 ^ (k % LimbBits)))

\* a \div 2^k, and whether a bit was dropped
BigShr(a, k) ==
    LET n == Min(k \div LimbBits, Len(a))
        d == BigDivSmall(SubSeq(a, n + 1, Len(a)), 2 ^ (k % LimbBits))
    IN  [q |-> d.q, sticky |-> d.r # 0 \/ \E i \in 1..n : a[i] # 0]

RECURSIVE BitLen(_)
BitLen(n) == IF n = 0 THEN 0 ELSE 1 + BitLen(n \div 2)
BigBitLen(a) == IF a = <<>> THEN 0 ELSE (Len(a) - 1) * LimbBits + BitLen(a[Len(a)])

\* a binary64 value sign * m * 2^e, m of at most MantBits bits (or 2^MantBits)
DZero == [sign |-> 0, m |-> <<>>, e |-> 0]
DOfInt(n) ==
    IF n = 0 THEN DZero
    ELSE [sign |-> IF n > 0 THEN 1 ELSE -1, m |-> BigOf(Abs(n)), e |-> 0]

\* sign * (m + f) * 2^e rounded to the nearest binary64, ties to even; f = 0,
\* or 0 < f < 1 when sticky, and then m has more than MantBits bits
DRound(sign, m, e, sticky) ==
    LET k == BigBitLen(m) - MantBits
    IN  IF m = <<>> THEN DZero
        ELSE IF k <= 0 THEN [sign |-> sign, m |-> m, e |-> e]
        ELSE LET s == BigShr(m, k - 1)
                 q == BigShr(s.q, 1).q
                 half == Digit(s.q, 1) % 2 = 1
                 above == s.sticky \/ sticky
                 up == half /\ (above \/ Digit(q, 1) % 2 = 1)
             IN  [sign |-> sign, m |-> IF up THEN BigAdd(q, BigOf(1)) ELSE q, e |-> e + k]

\* x / y in binary64, for integers x >= 0 and small y > 0
DDivInt(x, y) ==
    LET k == MantBits + 2 + BitLen(y)
        d == BigDivSmall(BigShl(BigOf(x), k), y)
    IN  DRound(1, d.q, -k, d.r # 0)

\* x * y in binary64
DMul(x, y) == DRound(x.sign * y.sign, BigMul(x.m, y.m), x.e + y.e, FALSE)

DNeg(x) == [x EXCEPT !.sign = -x.sign]

\* x + y in binary64
DAdd(x, y) ==
    IF x.sign = 0 THEN y
    ELSE IF y.sign = 0 THEN x
    ELSE LET e == Min(x.e, y.e)
             xm == BigShl(x.m, x.e - e)
             ym == BigShl(y.m, y.e - e)
             c == BigCmp(xm, ym)
         IN  IF x.sign = y.sign THEN DRound(x.sign, BigAdd(xm, ym), e, FALSE)
             ELSE IF c = 0 THEN DZero
             ELSE IF c > 0 THEN DRound(x.sign, BigSub(xm, ym), e, FALSE)
             ELSE DRound(y.sign, BigSub(ym, xm), e, FALSE)

\* x - y in binary64
DSub(x, y) == DAdd(x, DNeg(y))

\* x with its fractional part dropped (towards zero), as an integer
DTrunc(x) ==
    x.sign * BigToInt(IF x.e >= 0 THEN BigShl(x.m, x.e) ELSE BigShr(x.m, -x.e).q)

\* --------------------------------------------------- chromatic cast shift
\* np.average of channel ch: the sum of the plane, the count, and their
\* quotient in binary64, which is the value avg_a / avg_b holds
ChromaSum(raster, ch) == SumOver([i \in Idx(raster) |-> raster.px[i][ch]], Idx(raster))
Average(raster, ch) ==
    [sum |-> ChromaSum(raster, ch), n |-> raster.w * raster.h,
     val |-> DDivInt(ChromaSum(raster, ch), raster.w * raster.h)]
NoAverage == [sum |-> 0, n |-> 0, val |-> DZero]

\* (avg - 128)
CenteredNoNeutral(avg) == avg.val
Centered(avg) == DSub(avg.val, DOfInt(Neutral))

\* the literal 1.2: the binary64 nearest to 12/10
Strength == DDivInt(StrengthNum, StrengthDen)

\* v - ((avg - 128) * (l / 255.0) * 1.2), operation by operation in binary64
ShiftedAway(v, l, avg) ==
    DAdd(DOfInt(v), DMul(DMul(Centered(avg), DDivInt(l, U8Max)), Strength))
Shifted(v, l, avg) ==
    DSub(DOfInt(v), DMul(DMul(Centered(avg), DDivInt(l, U8Max)), Strength))

\* what a build makes of a float outside (-1, 256) written into a uint8 plane:
\* C leaves the conversion undefined; an element comes out as the low byte of
\* the truncated integer or saturated, and one array can hold both
CastModes == {"wrap", "saturate"}

\* the binary64 x written into a uint8 plane (assignment into result[:, :, ch]):
\* inside (-1, 256) the fractional part is dropped
StoreU8(x, mode) ==
    LET t == DTrunc(x)
    IN  IF 0 <= t /\ t <= U8Max THEN t
        ELSE IF mode = "wrap" THEN t % HistSize
        ELSE Clip(t, 0, U8Max)

\* the float plane of line 61 / 62 before it is stored
ShiftedPlane(raster, ch, avg) ==
    [i \in Idx(raster) |-> Shifted(raster.px[i][ch], raster.px[i][1], avg)]

\* the positions whose value the uint8 plane cannot hold
OutOfRange(raster, ch, avg) ==
    {i \in Idx(raster) :
        LET t == DTrunc(ShiftedPlane(raster, ch, avg)[i]) IN t < 0 \/ t > U8Max}

\* what the undefined conversion can make of each such position
Conversions(raster, ch, avg) == [OutOfRange(raster, ch, avg) -> CastModes]

\* result[:, :, ch] = result[:, :, ch] - ((avg - 128) * (result[:, :, 0] / 255.0) * 1.2)
\* with conv the conversion met at each out-of-range position
ShiftChannelIndexSlip(raster, ch, avg, conv) ==
    [raster EXCEPT !.px = [i \in Idx(raster) |->
        [raster.px[i] EXCEPT ![ch - 1] =
            StoreU8(ShiftedPlane(raster, ch, avg)[i],
                    IF i \in DOMAIN conv THEN conv[i] ELSE "wrap")]]]
ShiftChannel(raster, ch, avg, conv) ==
    [raster EXCEPT !.px = [i \in Idx(raster) |->
        [raster.px[i] EXCEPT ![ch] =
            StoreU8(ShiftedPlane(raster, ch, avg)[i],
                    IF i \in DOMAIN conv THEN conv[i] ELSE "wrap")]]]

\* ------------------------------------------- adaptive contrast enhancement
\* cv2.createCLAHE(clipLimit=0.5, tileGridSize=(8,8)).apply(plane) on an 8-bit
\* plane: pad to a multiple of the grid, per-tile histogram, clip and
\* redistribute, cumulative mapping, bilinear blend of the four nearest tiles.

\* the padded size: nothing is added only when both sides divide by the grid
NeedsPad(plane) == plane.w % TileGrid # 0 \/ plane.h % TileGrid # 0
ExtW(plane) == IF NeedsPad(plane) THEN plane.w + (TileGrid - (plane.w % TileGrid)) ELSE plane.w
ExtH(plane) == IF NeedsPad(plane) THEN plane.h + (TileGrid - (plane.h % TileGrid)) ELSE plane.h
TileW(plane) == ExtW(plane) \div TileGrid
TileH(plane) == ExtH(plane) \div TileGrid
TileArea(plane) == TileW(plane) * TileH(plane)

RECURSIVE Reflect101(_, _)
\* BORDER_REFLECT_101: the source index a padded index p reads, n the side
Reflect101(p, n) ==
    IF n = 1 THEN 0
    ELSE IF p < 0 THEN Reflect101(-p, n)
    ELSE IF p >= n THEN Reflect101(2 * n - 2 - p, n)
    ELSE p

ExtPixelZeroPad(plane, x, y) ==
    IF x < plane.w /\ y < plane.h THEN plane.px[y * plane.w + x] ELSE 0
ExtPixel(plane, x, y) ==
    plane.px[Reflect101(y, plane.h) * plane.w + Reflect101(x, plane.w)]

TilePositions(plane, tx, ty) ==
    (tx * TileW(plane)..((tx + 1) * TileW(plane) - 1)) \X
    (ty * TileH(plane)..((ty + 1) * TileH(plane) - 1))

\* the tile's histogram, on the bins that are not empty
TileValues(plane, tx, ty) ==
    {ExtPixel(plane, pos[1], pos[2]) : pos \in TilePositions(plane, tx, ty)}
TileCount(plane, tx, ty, u) ==
    Cardinality({pos \in TilePositions(plane, tx, ty) : ExtPixel(plane, pos[1], pos[2]) = u})

\* static_cast<int>(clipLimit * tileSizeTotal / histSize), at least 1
ClipLimit(area) == Max((ClipLimitNum * area) \div (ClipLimitDen * HistSize), 1)

\* cvRound of num/den >= 0: to the nearest integer, ties to the even one
RoundHalfEven(num, den) ==
    LET q == num \div den
        r == num % den
    IN  IF 2 * r > den THEN q + 1
        ELSE IF 2 * r < den THEN q
        ELSE IF q % 2 = 0 THEN q ELSE q + 1

\* the tile's mapping at intensity v: the clipped, redistributed histogram
\* summed up to v and scaled by 255 / tileSizeTotal
TileLut(plane, tx, ty, v) ==
    LET area == TileArea(plane)
        cl == ClipLimit(area)
        vals == TileValues(plane, tx, ty)
        cnt == [u \in vals |-> TileCount(plane, tx, ty, u)]
        clipped == SumOver([u \in vals |-> Max(cnt[u] - cl, 0)], vals)
        redistBatch == clipped \div HistSize
        residual == clipped - redistBatch * HistSize
        residualStep == IF residual = 0 THEN 1 ELSE Max(HistSize \div residual, 1)
        bumped == IF residual = 0 THEN 0 ELSE Min(residual, (v \div residualStep) + 1)
        below == {u \in vals : u <= v}
        sum == SumOver([u \in below |-> Min(cnt[u], cl)], below)
               + redistBatch * (v + 1) + bumped
    IN  Clip(RoundHalfEven(sum * U8Max, area), 0, U8Max)

\* the lookup tables of every tile, on the intensities the plane holds
Tiles == (0..(TileGrid - 1)) \X (0..(TileGrid - 1))
PlaneValues(plane) == {plane.px[i] : i \in Idx(plane)}
TileLuts(plane) ==
    [t \in Tiles |-> [v \in PlaneValues(plane) |-> TileLut(plane, t[1], t[2], v)]]

\* the output at (x, y): the four nearest tiles' mappings of the pixel's own
\* intensity, blended by the distance to the tile centres
ClahePixel(plane, lut, x, y) ==
    LET tw == TileW(plane)
        th == TileH(plane)
        v == plane.px[y * plane.w + x]
        nx == 2 * x - tw
        ny == 2 * y - th
        fx == nx \div (2 * tw)
        fy == ny \div (2 * th)
        xa == nx - 2 * tw * fx
        ya == ny - 2 * th * fy
        xa1 == 2 * tw - xa
        ya1 == 2 * th - ya
        tx1 == Max(fx, 0)
        tx2 == Min(fx + 1, TileGrid - 1)
        ty1 == Max(fy, 0)
        ty2 == Min(fy + 1, TileGrid - 1)
        res == (lut[<<tx1, ty1>>][v] * xa1 + lut[<<tx2, ty1>>][v] * xa) * ya1
             + (lut[<<tx1, ty2>>][v] * xa1 + lut[<<tx2, ty2>>][v] * xa) * ya
    IN  Clip(RoundHalfEven(res, 4 * tw * th), 0, U8Max)

\* (the test on lut is always true: it has the tables computed once and then
\* read by every pixel, as the source computes them before it interpolates)
Clahe(plane) ==
    LET lut == TileLuts(plane)
    IN  IF lut = lut
        THEN [plane EXCEPT !.px =
                [i \in Idx(plane) |-> ClahePixel(plane, lut, i % plane.w, i \div plane.w)]]
        ELSE plane

\* ------------------------------------------------------------ file system
\* cv2.imread(path): the decoded raster, or NotDecoded (None) when the file
\* is missing or is no image
NotDecoded == [w |-> 0, h |-> 0, px |-> <<"None">>]
Files ==
    ("gray.jpg" :> Row(<<Gray, Gray>>)) @@
    ("cast.jpg" :> Row(<<BlueCast>>)) @@
    ("reef.jpg" :> Row(<<Green, Blue, Blue>>)) @@
    ("kelp.jpg" :> Row(<<DeepBlue, SeaGreen>>)) @@
    ("notes.txt" :> NotDecoded)
Paths == DOMAIN Files
imread(p) == Files[p]

\* ------------------------------------------------------------------ state
VARIABLES
    pc,           \* position in process_image / preprocess_underwater_image
    calls,        \* process_image calls started so far
    path,         \* image_path of the current call
    save_output,  \* save_output of the current call
    original,     \* process_image's local: the decoded raster
    enhanced,     \* process_image's local: the pipeline's return value
    stats,        \* names get_image_statistics was called with in this call
    printed,      \* TRUE once this call printed "Error: Could not load image"
    outcome,      \* how the current call ended: "running", "returned", "raised"
    emitted,      \* what this call wrote to disk or has on display
    loc,          \* the locals of preprocess_underwater_image
    trace,        \* the pipeline stages run in this call, in order
    outputs,      \* per path, the rasters the pipeline has returned for it, in order
    red,          \* one pixel through red compensation
    flat          \* one flat plane through the contrast enhancer

vars == <<pc, calls, path, save_output, original, enhanced, stats, printed,
          outcome, emitted, loc, trace, outputs, red, flat>>

procVars == <<calls, path, save_output, original, enhanced, stats, printed,
              outcome, emitted, outputs>>

\* the locals of preprocess_underwater_image on entry: only `image` is bound
NewFrame(image) ==
    [image |-> image, b |-> Unset, g |-> Unset, r |-> Unset, r_new |-> Unset,
     image_compensated |-> Unset, result |-> Unset,
     avg_a |-> NoAverage, avg_b |-> NoAverage,
     l |-> Unset, a |-> Unset, b_lab |-> Unset, final_lab |-> Unset, final |-> Unset]

NoPixel == [R |-> 0, G |-> 0, num |-> 0, r_new |-> 0, done |-> FALSE]
NoPlane == [plane |-> Unset, out |-> Unset, done |-> FALSE]

\* ------------------------------------------- preprocess_underwater_image
\* the statement that follows each statement of the function body
NextStageShiftsSwapped(stage) ==
    CASE stage = "split" -> "compensate"
      [] stage = "compensate" -> "merge"
      [] stage = "merge" -> "to_lab"
      [] stage = "to_lab" -> "averages"
      [] stage = "averages" -> "shift_b"
      [] stage = "shift_b" -> "shift_a"
      [] stage = "shift_a" -> "split_lab"
      [] stage = "split_lab" -> "clahe"
      [] stage = "clahe" -> "merge_lab"
      [] stage = "merge_lab" -> "to_bgr"
      [] stage = "to_bgr" -> "return"
NextStage(stage) ==
    CASE stage = "split" -> "compensate"
      [] stage = "compensate" -> "merge"
      [] stage = "merge" -> "to_lab"
      [] stage = "to_lab" -> "averages"
      [] stage = "averages" -> "shift_a"
      [] stage = "shift_a" -> "shift_b"
      [] stage = "shift_b" -> "split_lab"
      [] stage = "split_lab" -> "clahe"
      [] stage = "clahe" -> "merge_lab"
      [] stage = "merge_lab" -> "to_bgr"
      [] stage = "to_bgr" -> "return"

\* b, g, r = cv2.split(image)
Split ==
    /\ pc = "split"
    /\ loc' = [loc EXCEPT !.b = Channel(loc.image, 1),
                          !.g = Channel(loc.image, 2),
                          !.r = Channel(loc.image, 3)]
    /\ trace' = Append(trace, "split")
    /\ pc' = NextStage("split")
    /\ UNCHANGED <<procVars, red, flat>>

\* r_f, g_f, compensated_r, r_new
Compensate ==
    /\ pc = "compensate"
    /\ loc' = [loc EXCEPT !.r_new =
                 [loc.r EXCEPT !.px = [i \in Idx(loc.r) |-> RedNew(loc.r.px[i], loc.g.px[i])]]]
    /\ trace' = Append(trace, "compensate")
    /\ pc' = NextStage("compensate")
    /\ UNCHANGED <<procVars, red, flat>>

\* image_compensated = cv2.merge([b, g, r_new])
MergeCompensated ==
    /\ pc = "merge"
    /\ loc' = [loc EXCEPT !.image_compensated = Merge(loc.b, loc.g, loc.r_new)]
    /\ trace' = Append(trace, "merge")
    /\ pc' = NextStage("merge")
    /\ UNCHANGED <<procVars, red, flat>>

\* result = cv2.cvtColor(image_compensated, cv2.COLOR_BGR2LAB)
ToLab ==
    /\ pc = "to_lab"
    /\ loc' = [loc EXCEPT !.result = BGR2LAB(loc.image_compensated)]
    /\ trace' = Append(trace, "to_lab")
    /\ pc' = NextStage("to_lab")
    /\ UNCHANGED <<procVars, red, flat>>

\* avg_a = np.average(result[:, :, 1]); avg_b = np.average(result[:, :, 2])
Averages ==
    /\ pc = "averages"
    /\ loc' = [loc EXCEPT !.avg_a = Average(loc.result, 2),
                          !.avg_b = Average(loc.result, 3)]
    /\ trace' = Append(trace, "averages")
    /\ pc' = NextStage("averages")
    /\ UNCHANGED <<procVars, red, flat>>

\* result[:, :, 1] = result[:, :, 1] - ((avg_a - 128) * (result[:, :, 0] / 255.0) * 1.2)
ShiftA ==
    /\ pc = "shift_a"
    /\ \E conv \in Conversions(loc.result, 2, loc.avg_a) :
           loc' = [loc EXCEPT !.result = ShiftChannel(loc.result, 2, loc.avg_a, conv)]
    /\ trace' = Append(trace, "shift_a")
    /\ pc' = NextStage("shift_a")
    /\ UNCHANGED <<procVars, red, flat>>

\* result[:, :, 2] = result[:, :, 2] - ((avg_b - 128) * (result[:, :, 0] / 255.0) * 1.2)
ShiftB ==
    /\ pc = "shift_b"
    /\ \E conv \in Conversions(loc.result, 3, loc.avg_b) :
           loc' = [loc EXCEPT !.result = ShiftChannel(loc.result, 3, loc.avg_b, conv)]
    /\ trace' = Append(trace, "shift_b")
    /\ pc' = NextStage("shift_b")
    /\ UNCHANGED <<procVars, red, flat>>

\* l, a, b_lab = cv2.split(result)
SplitLab ==
    /\ pc = "split_lab"
    /\ loc' = [loc EXCEPT !.l = Channel(loc.result, 1),
                          !.a = Channel(loc.result, 2),
                          !.b_lab = Channel(loc.result, 3)]
    /\ trace' = Append(trace, "split_lab")
    /\ pc' = NextStage("split_lab")
    /\ UNCHANGED <<procVars, red, flat>>

\* clahe = cv2.createCLAHE(clipLimit=0.5, tileGridSize=(8,8)); l = clahe.apply(l)
ApplyClahe ==
    /\ pc = "clahe"
    /\ loc' = [loc EXCEPT !.l = Clahe(loc.l)]
    /\ trace' = Append(trace, "clahe")
    /\ pc' = NextStage("clahe")
    /\ UNCHANGED <<procVars, red, flat>>

\* final_lab = cv2.merge((l, a, b_lab))
MergeLab ==
    /\ pc = "merge_lab"
    /\ loc' = [loc EXCEPT !.final_lab = Merge(loc.l, loc.a, loc.b_lab)]
    /\ trace' = Append(trace, "merge_lab")
    /\ pc' = NextStage("merge_lab")
    /\ UNCHANGED <<procVars, red, flat>>

\* final = cv2.cvtColor(final_lab, cv2.COLOR_LAB2BGR)
ToBgr ==
    /\ pc = "to_bgr"
    /\ loc' = [loc EXCEPT !.final = LAB2BGR(loc.final_lab)]
    /\ trace' = Append(trace, "to_bgr")
    /\ pc' = NextStage("to_bgr")
    /\ UNCHANGED <<procVars, red, flat>>

\* return final
Return ==
    /\ pc = "return"
    /\ pc' = "bind"
    /\ UNCHANGED <<procVars, loc, trace, red, flat>>

Pipeline ==
    \/ Split \/ Compensate \/ MergeCompensated \/ ToLab \/ Averages \/ ShiftA
    \/ ShiftB \/ SplitLab \/ ApplyClahe \/ MergeLab \/ ToBgr \/ Return

\* ----------------------------------------------------------- process_image
pipeVars == <<loc, trace>>

\* main(): process_image(args.input, save_output=..., output_dir=...)
Call(p, s) ==
    /\ pc = "idle"
    /\ calls < MaxCalls
    /\ calls' = calls + 1
    /\ path' = p
    /\ save_output' = s
    /\ original' = Unset
    /\ enhanced' = Unset
    /\ stats' = <<>>
    /\ printed' = FALSE
    /\ outcome' = "running"
    /\ emitted' = {}
    /\ loc' = NewFrame(Unset)
    /\ trace' = <<>>
    /\ pc' = "load"
    /\ UNCHANGED <<outputs, red, flat>>

\* original = cv2.imread(image_path)
Load ==
    /\ pc = "load"
    /\ original' = imread(path)
    /\ pc' = "check"
    /\ UNCHANGED <<calls, path, save_output, enhanced, stats, printed, outcome,
                   emitted, outputs, pipeVars, red, flat>>

\* if original is None
LoadFailedNever(image) == FALSE
LoadFailed(image) == image = NotDecoded

\* print("Error: Could not load image ..."); return
CheckFailed ==
    /\ pc = "check"
    /\ LoadFailed(original)
    /\ printed' = TRUE
    /\ outcome' = "returned"
    /\ pc' = "idle"
    /\ UNCHANGED <<calls, path, save_output, original, enhanced, stats, emitted,
                   outputs, pipeVars, red, flat>>

\* print("Image size: ...")
CheckOk ==
    /\ pc = "check"
    /\ ~LoadFailed(original)
    /\ pc' = "stats_original"
    /\ UNCHANGED <<procVars, pipeVars, red, flat>>

\* get_image_statistics(original, "Original")
StatsOriginal ==
    /\ pc = "stats_original"
    /\ stats' = Append(stats, "Original")
    /\ pc' = "enter"
    /\ UNCHANGED <<calls, path, save_output, original, enhanced, printed, outcome,
                   emitted, outputs, pipeVars, red, flat>>

\* preprocess_underwater_image(original): the call
Enter ==
    /\ pc = "enter"
    /\ loc' = NewFrame(original)
    /\ pc' = "split"
    /\ UNCHANGED <<procVars, trace, red, flat>>

\* enhanced = preprocess_underwater_image(original): the assignment
BindEnhanced ==
    /\ pc = "bind"
    /\ enhanced' = loc.final
    /\ outputs' = [outputs EXCEPT ![path] = Append(@, loc.final)]
    /\ pc' = "stats_enhanced"
    /\ UNCHANGED <<calls, path, save_output, original, stats, printed, outcome,
                   emitted, pipeVars, red, flat>>

\* get_image_statistics(enhanced, "Enhanced")
StatsEnhanced ==
    /\ pc = "stats_enhanced"
    /\ stats' = Append(stats, "Enhanced")
    /\ pc' = "emit"
    /\ UNCHANGED <<calls, path, save_output, original, enhanced, printed, outcome,
                   emitted, outputs, pipeVars, red, flat>>

\* if save_output: the comparison, the original and the enhanced raster are written
Save ==
    /\ pc = "emit"
    /\ save_output
    /\ emitted' = {"_comparison.jpg", "_original.jpg", "_enhanced.jpg"}
    /\ outcome' = "returned"
    /\ pc' = "idle"
    /\ UNCHANGED <<calls, path, save_output, original, enhanced, stats, printed,
                   outputs, pipeVars, red, flat>>

\* else: cv2.imshow(...): the comparison is on display, the call goes on
Show ==
    /\ pc = "emit"
    /\ ~save_output
    /\ emitted' = {"window"}
    /\ pc' = "wait_key"
    /\ UNCHANGED <<calls, path, save_output, original, enhanced, stats, printed,
                   outcome, outputs, pipeVars, red, flat>>

\* cv2.waitKey(0) returns on a key press; cv2.destroyAllWindows() closes the
\* window and the call returns. Until then the call stays in waitKey.
KeyPressed ==
    /\ pc = "wait_key"
    /\ emitted' = emitted \ {"window"}
    /\ outcome' = "returned"
    /\ pc' = "idle"
    /\ UNCHANGED <<calls, path, save_output, original, enhanced, stats, printed,
                   outputs, pipeVars, red, flat>>

\* the wait is interrupted (KeyboardInterrupt): the exception leaves
\* process_image and main(), the window is not destroyed, the program ends
Interrupted ==
    /\ pc = "wait_key"
    /\ outcome' = "raised"
    /\ pc' = "exited"
    /\ UNCHANGED <<calls, path, save_output, original, enhanced, stats, printed,
                   emitted, outputs, pipeVars, red, flat>>

Init ==
    /\ pc = "idle"
    /\ calls = 0
    /\ path = ""
    /\ save_output = FALSE
    /\ original = Unset
    /\ enhanced = Unset
    /\ stats = <<>>
    /\ printed = FALSE
    /\ outcome = "returned"
    /\ emitted = {}
    /\ loc = NewFrame(Unset)
    /\ trace = <<>>
    /\ outputs = [p \in Paths |-> <<>>]
    /\ red = NoPixel
    /\ flat = NoPlane

Next ==
    \/ \E p \in Paths, s \in BOOLEAN : Call(p, s)
    \/ Load
    \/ CheckFailed
    \/ CheckOk
    \/ StatsOriginal
    \/ Enter
    \/ Pipeline
    \/ BindEnhanced
    \/ StatsEnhanced
    \/ Save
    \/ Show
    \/ KeyPressed
    \/ Interrupted

Spec == Init /\ [][Next]_vars

\* ------------------------------------- the pipeline alone, on every raster
InitPipe ==
    /\ pc = "split"
    /\ calls = 1
    /\ path = ""
    /\ save_output = FALSE
    /\ original \in Images
    /\ enhanced = Unset
    /\ stats = <<"Original">>
    /\ printed = FALSE
    /\ outcome = "running"
    /\ emitted = {}
    /\ loc = NewFrame(original)
    /\ trace = <<>>
    /\ outputs = [p \in Paths |-> <<>>]
    /\ red = NoPixel
    /\ flat = NoPlane

SpecPipe == InitPipe /\ [][Pipeline]_vars

\* ------------------------------------------ red compensation of one pixel
InitRed ==
    /\ pc = "pixel"
    /\ calls = 0
    /\ path = ""
    /\ save_output = FALSE
    /\ original = Unset
    /\ enhanced = Unset
    /\ stats = <<>>
    /\ printed = FALSE
    /\ outcome = "returned"
    /\ emitted = {}
    /\ loc = NewFrame(Unset)
    /\ trace = <<>>
    /\ outputs = [p \in Paths |-> <<>>]
    /\ red \in {[NoPixel EXCEPT !.R = R, !.G = G] : R \in U8, G \in U8}
    /\ flat = NoPlane

\* compensated_r * 255 and r_new for the pixel
CompensatePixel ==
    /\ pc = "pixel"
    /\ ~red.done
    /\ red' = [red EXCEPT !.num = CompensatedNum(red.R, red.G),
                          !.r_new = RedNew(red.R, red.G),
                          !.done = TRUE]
    /\ UNCHANGED <<pc, procVars, pipeVars, flat>>

SpecRed == InitRed /\ [][CompensatePixel]_vars

\* ------------------------------------ the contrast enhancer on flat planes
FlatPlane(w, h, v) == [w |-> w, h |-> h, px |-> [i \in 0..(w * h - 1) |-> v]]

\* plane sizes: multiples of the grid, and sizes the enhancer has to pad
FlatSizes ==
    {<<TileGrid * k, TileGrid * j>> : k \in 1..MaxTile, j \in 1..MaxTile}
    \cup {<<TileGrid * k + 3, TileGrid * k - 3>> : k \in 1..MaxTile}

InitFlat ==
    /\ pc = "plane"
    /\ calls = 0
    /\ path = ""
    /\ save_output = FALSE
    /\ original = Unset
    /\ enhanced = Unset
    /\ stats = <<>>
    /\ printed = FALSE
    /\ outcome = "returned"
    /\ emitted = {}
    /\ loc = NewFrame(Unset)
    /\ trace = <<>>
    /\ outputs = [p \in Paths |-> <<>>]
    /\ red = NoPixel
    /\ flat \in {[NoPlane EXCEPT !.plane = FlatPlane(s[1], s[2], v)] : s \in FlatSizes, v \in U8}

\* clahe.apply(plane)
EnhanceFlat ==
    /\ pc = "plane"
    /\ ~flat.done
    /\ flat' = [flat EXCEPT !.out = Clahe(flat.plane), !.done = TRUE]
    /\ UNCHANGED <<pc, procVars, pipeVars, red>>

SpecFlat == InitFlat /\ [][EnhanceFlat]_vars

\* ================================================================ claims
\* the perceptual raster as the forward conversion made it, before the cast
\* corrector wrote into it
Forward == BGR2LAB(loc.image_compensated)

\* the positions at which both chroma planes have been written
CastDone == {"split_lab", "clahe", "merge_lab", "to_bgr", "return", "bind"}

\* clamp(v - (avg - 128) * (l / 255) * 1.2, 0, 255) as an 8-bit value
ClampedShift(v, l, avg) == Clip(DTrunc(Shifted(v, l, avg)), 0, U8Max)

Uniform(raster) == \A i, j \in Idx(raster) : raster.px[i] = raster.px[j]

\* n * |mean - 128| for a plane of n values summing to sum
OffNeutral(sum, n) == Abs(sum - Neutral * n)

\* C1: once the cast corrector has written both chroma planes, every stored
\* chroma value is the clamped one, clamp(v - (avg - 128) * (l/255) * 1.2, 0, 255):
\* below 0 is stored as 0, above 255 as 255, never modulo 256.
C1_ChromaStoredClamped ==
    pc = "split_lab" =>
        \A i \in Idx(loc.result) :
            /\ loc.result.px[i][2] =
                  ClampedShift(Forward.px[i][2], Forward.px[i][1], loc.avg_a)
            /\ loc.result.px[i][3] =
                  ClampedShift(Forward.px[i][3], Forward.px[i][1], loc.avg_b)

\* C2: the new red value is sign-consistent with green - red: not below R when
\* G > R, equal to R when G = R, not above R when G < R.
C2_RedSignConsistent ==
    red.done =>
        /\ red.G > red.R => red.r_new >= red.R
        /\ red.G = red.R => red.r_new = red.R
        /\ red.G < red.R => red.r_new <= red.R

\* a pixel whose red was raised, one whose red was lowered
C2_Witness ==
    /\ red.done
    /\ red.R = 10 /\ red.G = 50
    /\ red.r_new > red.R

\* C3 as stated: a failed decode ends the call with an InvalidImage error
\* raised to the caller.
C3_DecodeFailureRaises ==
    (pc = "idle" /\ calls > 0 /\ original = NotDecoded) => outcome = "raised"

\* C3 amended: a failed decode ends the call before the core runs: the error
\* message is printed and the call returns normally, the pipeline is never
\* entered, no statistics are computed, nothing is written or displayed.
C3_DecodeFailureReturnsEarly ==
    original = NotDecoded =>
        /\ pc \in {"check", "idle"}
        /\ stats = <<>>
        /\ trace = <<>>
        /\ loc = NewFrame(Unset)
        /\ enhanced = Unset
        /\ emitted = {}
        /\ pc = "idle" => (printed /\ outcome = "returned")

C3_Witness ==
    /\ pc = "idle"
    /\ original = NotDecoded
    /\ printed
    /\ outcome = "returned"

\* C4: when the A mean and the B mean of the perceptual raster are both
\* exactly 128, the cast corrector leaves every A and every B value unchanged.
C4_NeutralMeansNoOp ==
    (/\ pc = "split_lab"
     /\ OffNeutral(loc.avg_a.sum, loc.avg_a.n) = 0
     /\ OffNeutral(loc.avg_b.sum, loc.avg_b.n) = 0)
    => \A i \in Idx(loc.result) :
           /\ loc.result.px[i][2] = Forward.px[i][2]
           /\ loc.result.px[i][3] = Forward.px[i][3]

\* both means are 128 while no pixel is neutral
C4_Witness ==
    /\ pc = "split_lab"
    /\ OffNeutral(loc.avg_a.sum, loc.avg_a.n) = 0
    /\ OffNeutral(loc.avg_b.sum, loc.avg_b.n) = 0
    /\ \A i \in Idx(loc.result) :
           Forward.px[i][2] # Neutral /\ Forward.px[i][3] # Neutral

\* C5 as stated: a flat plane of value v comes back with v at every pixel.
C5_FlatIdentity ==
    flat.done => \A i \in Idx(flat.out) : flat.out.px[i] = flat.plane.px[i]

\* C5 amended: a flat plane of value v comes back flat, of the same size, with
\* one value at every pixel, and that value is at least v.
C5_FlatStaysFlat ==
    flat.done =>
        /\ flat.out.w = flat.plane.w /\ flat.out.h = flat.plane.h
        /\ \A i \in Idx(flat.out) :
               /\ flat.out.px[i] = flat.out.px[0]
               /\ flat.out.px[i] >= flat.plane.px[i]

\* a padded flat plane that came back brighter than it went in
C5_Witness ==
    /\ flat.done
    /\ NeedsPad(flat.plane)
    /\ TileArea(flat.plane) > 1
    /\ flat.out.px[0] > flat.plane.px[0]
    /\ flat.out.px[0] < U8Max

\* the input raster is of one colour and neither chroma mean is 128
UniformOffNeutral ==
    /\ pc = "split_lab"
    /\ Uniform(loc.image)
    /\ OffNeutral(loc.avg_a.sum, loc.avg_a.n) # 0
    /\ OffNeutral(loc.avg_b.sum, loc.avg_b.n) # 0

\* the shift (avg - 128) * (l/255) * 1.2 of a plane of one value v is at
\* least 1 in size, and v is at least 2 away from 128
ShiftBites(v, l) ==
    /\ Abs(v - Neutral) >= 2
    /\ Abs(v - Neutral) * l * StrengthNum >= U8Max * StrengthDen

\* C6 as stated: on a raster of one colour whose chroma means differ from
\* 128, both means end strictly closer to 128.
C6_StrictlyCloser ==
    UniformOffNeutral =>
        /\ OffNeutral(ChromaSum(loc.result, 2), loc.avg_a.n)
              < OffNeutral(loc.avg_a.sum, loc.avg_a.n)
        /\ OffNeutral(ChromaSum(loc.result, 3), loc.avg_b.n)
              < OffNeutral(loc.avg_b.sum, loc.avg_b.n)

\* C6 amended: on such a raster neither mean ends farther from 128, and a
\* mean ends strictly closer whenever its shift is at least 1 in size and
\* it was at least 2 away from 128.
C6_NotFartherAndCloserWhenShiftBites ==
    UniformOffNeutral =>
        LET l == Forward.px[0][1]
            a == Forward.px[0][2]
            b == Forward.px[0][3]
            a1 == OffNeutral(ChromaSum(loc.result, 2), loc.avg_a.n)
            b1 == OffNeutral(ChromaSum(loc.result, 3), loc.avg_b.n)
            a0 == OffNeutral(loc.avg_a.sum, loc.avg_a.n)
            b0 == OffNeutral(loc.avg_b.sum, loc.avg_b.n)
        IN  /\ a1 <= a0
            /\ b1 <= b0
            /\ ShiftBites(a, l) => a1 < a0
            /\ ShiftBites(b, l) => b1 < b0

\* the strong-blue-cast raster, both means strictly closer after correction
C6_Witness ==
    /\ UniformOffNeutral
    /\ loc.image.px[0] = BlueCast
    /\ ShiftBites(Forward.px[0][2], Forward.px[0][1])
    /\ ShiftBites(Forward.px[0][3], Forward.px[0][1])
    /\ OffNeutral(ChromaSum(loc.result, 2), loc.avg_a.n)
          < OffNeutral(loc.avg_a.sum, loc.avg_a.n)
    /\ OffNeutral(ChromaSum(loc.result, 3), loc.avg_b.n)
          < OffNeutral(loc.avg_b.sum, loc.avg_b.n)

\* the order the claim gives: split and red compensation, merge, forward
\* conversion, cast correction, contrast enhancement, inverse conversion
ClaimedOrder ==
    <<"split", "compensate", "merge", "to_lab", "averages", "shift_a", "shift_b",
      "split_lab", "clahe", "merge_lab", "to_bgr">>

\* C7: the stages run once each in the claimed order; both chroma means are
\* taken from the forward conversion's planes before either plane is written;
\* the enhancer has not run while the cast corrector is still to write.
C7_StagesOnceInOrder ==
    /\ Len(trace) <= Len(ClaimedOrder)
    /\ trace = SubSeq(ClaimedOrder, 1, Len(trace))
    /\ pc \in {"return", "bind"} => trace = ClaimedOrder
    /\ pc \in {"shift_a", "shift_b"} =>
           /\ loc.avg_a = Average(Forward, 2)
           /\ loc.avg_b = Average(Forward, 3)
           /\ \A k \in 1..Len(trace) : trace[k] # "clahe"
           /\ loc.l = Unset

C7_Witness ==
    /\ pc = "return"
    /\ trace = ClaimedOrder
    /\ loc.final # Unset

\* the rasters the pipeline has returned for path p, in call order
Returned(p) == outputs[p]

C9_StagesWriteOwnPlanes ==
    /\ pc \in {"shift_b"} \cup CastDone =>
           Channel(loc.result, 1) = Channel(Forward, 1)
    /\ pc = "clahe" => loc.l = Channel(Forward, 1)
    /\ pc \in {"to_bgr", "return", "bind"} =>
           /\ Channel(loc.final_lab, 2) = Channel(loc.result, 2)
           /\ Channel(loc.final_lab, 3) = Channel(loc.result, 3)

\* both stages changed their own planes
C9_Witness ==
    /\ pc = "to_bgr"
    /\ Channel(loc.final_lab, 2) # Channel(Forward, 2)
    /\ Channel(loc.final_lab, 3) # Channel(Forward, 3)
    /\ Channel(loc.final_lab, 1) # Channel(Forward, 1)

\* C10: the clip of red compensation never binds: compensated_r * 255 lies
\* in [0, 255] for every R and G, and r_new is that value with its fraction
\* dropped.
C10_ClipNeverBinds ==
    red.done =>
        /\ 0 <= red.num
        /\ red.num <= U8Max * CompensatedDen
        /\ red.r_new = red.num \div CompensatedDen

\* red lowered where green is below red, and not down to 0
C10_Witness ==
    /\ red.done
    /\ red.G < red.R
    /\ red.r_new < red.R
    /\ red.r_new > 0

====
